---- MODULE Spec2Model ----
(***************************************************************************)
(* Model of rust-polars/src/main.rs: the console benchmark entry point     *)
(* (feature "bench-cli") and the Shuttle/axum web handlers (feature off).  *)
(* The etl module (PolarsETL) is declared by `mod etl;` but its file is    *)
(* not part of the sources; its stages are modelled from the written       *)
(* specification: a stage either succeeds or fails, and records its        *)
(* elapsed-time metric either way.                                         *)
(*                                                                         *)
(* Floating point metrics of the web payload are kept as fixed-point       *)
(* tenths (1.2 is 12, 12_748_986.0 is 127489860).                          *)
(***************************************************************************)
EXTENDS Integers, Sequences, FiniteSets, TLC

VARIABLES
    mode,        \* "cli" (feature bench-cli) or "service" (feature off)
    fileExists,  \* does ../data/yellow_tripdata_2015-01.csv exist
    pc,          \* position of the console main
    out,         \* lines printed on standard output by the console main
    errout,      \* lines printed on standard error by the Rust runtime
    exited,      \* has the console process ended
    exitCode,    \* its exit code once ended
    started,     \* history: the stages called, in call order
    running,     \* the stage currently executing, or "none"
    ret,         \* per stage: "none", "Ok" or "Err" as returned to main
    last,        \* the result main is about to inspect, or "none"
    state,       \* pipeline state of the PolarsETL instance
    etlMetrics,  \* keys present in the PolarsETL metrics mapping
    metricsRead, \* has main called etl.get_metrics()
    toPrint,     \* keys the summary loop has not visited yet
    reqs         \* service mode: the requests in flight, per connection slot

vars == <<mode, fileExists, pc, out, errout, exited, exitCode, started,
          running, ret, last, state, etlMetrics, metricsRead, toPrint, reqs>>

cliVars == <<pc, out, errout, exited, exitCode, started, running, ret, last,
             state, etlMetrics, metricsRead, toPrint>>

\* Number of requests that can be in flight at once.
MaxReqs == 2

Slots == 1..MaxReqs

----------------------------------------------------------------------------
(* Console entry point                                                     *)

StageOrder == <<"load_data", "clean_data", "aggregate_data", "sort_and_filter", "save_results">>

Stages == {StageOrder[i] : i \in 1..Len(StageOrder)}

StageIndex(s) == CHOOSE i \in 1..Len(StageOrder) : StageOrder[i] = s

Line(kind) == [line |-> kind, key |-> ""]

MetricLine(k) == [line |-> "metric", key |-> k]

BannerLines == <<Line("sep"), Line("starting"), Line("sep")>>

NotFoundLines == <<Line("not_found"), Line("hint")>>

CompleteLines == <<Line("blank_sep"), Line("complete"), Line("sep"), Line("total_time"), Line("metrics_header")>>

\* The line of the Err arm: "Error during Polars benchmark: {e}".
ErrorLines == <<Line("error_during_benchmark")>>

\* What the Rust runtime writes when main returns Err(e): "Error: {e:?}".
RuntimeErrorLines == <<Line("runtime_error")>>

\* Mutant: the existence check is inverted.
CheckTargetInverted(exists) == IF exists THEN "not_found" ELSE "load_data"

\* if !Path::new(data_file).exists() { ...; return Ok(()) }
CheckTarget(exists) == IF exists THEN "load_data" ELSE "not_found"

\* Mutant: errors are swallowed and the chain goes on to the next stage.
AfterStageContinue(s, r) ==
    IF s = "save_results"
    THEN (IF r = "Ok" THEN "ok_arm" ELSE "err_arm")
    ELSE StageOrder[StageIndex(s) + 1]

\* Mutant: the chain is cut after load_data and matched right away.
AfterStageShort(s, r) ==
    IF s = "save_results" \/ s = "load_data"
    THEN (IF r = "Ok" THEN "ok_arm" ELSE "err_arm")
    ELSE IF r = "Ok" THEN StageOrder[StageIndex(s) + 1] ELSE "return_err"

\* Mutant: the two match arms are swapped.
AfterStageSwapped(s, r) ==
    IF s = "save_results"
    THEN (IF r = "Ok" THEN "err_arm" ELSE "ok_arm")
    ELSE IF r = "Ok" THEN StageOrder[StageIndex(s) + 1] ELSE "return_err"

\* Mutant: every stage's error is delivered to the match.
AfterStageMatched(s, r) ==
    IF r = "Ok"
    THEN (IF s = "save_results" THEN "ok_arm" ELSE StageOrder[StageIndex(s) + 1])
    ELSE "err_arm"

\* Where main goes when stage s has returned r: the first four calls end in
\* `?` (an Err leaves main at once), the result of save_results is matched.
AfterStage(s, r) ==
    IF s = "save_results"
    THEN (IF r = "Ok" THEN "ok_arm" ELSE "err_arm")
    ELSE IF r = "Ok" THEN StageOrder[StageIndex(s) + 1] ELSE "return_err"

\* Exit code of `fn main() -> Result<(), Box<dyn Error>>`.
MainExitCode(r) == IF r = "Ok" THEN 0 ELSE 1

\* key.contains("time")
ContainsTime(k) == k \in {"load_time", "clean_time", "aggregate_time", "sort_filter_time", "save_time"}

\* PolarsETL: the metric key a stage records.
TimeKey(s) ==
    CASE s = "load_data" -> "load_time"
      [] s = "clean_data" -> "clean_time"
      [] s = "aggregate_data" -> "aggregate_time"
      [] s = "sort_and_filter" -> "sort_filter_time"
      [] s = "save_results" -> "save_time"

\* PolarsETL: derived counts a successful stage records.
CountKeys(s) ==
    CASE s = "load_data" -> {"rows_processed"}
      [] s = "sort_and_filter" -> {"long_trips_count", "expensive_trips_count"}
      [] OTHER -> {}

\* PolarsETL: the pipeline state a successful stage leads to.
StateAfter(s) ==
    CASE s = "load_data" -> "Loaded"
      [] s = "clean_data" -> "Cleaned"
      [] s = "aggregate_data" -> "Aggregated"
      [] s = "sort_and_filter" -> "Filtered"
      [] s = "save_results" -> "Saved"

\* lines 12-14
PrintBanner ==
    /\ mode = "cli" /\ pc = "banner"
    /\ out' = out \o BannerLines
    /\ pc' = "check"
    /\ UNCHANGED <<last, mode, fileExists, errout, exited, exitCode, started, running,
                   ret, state, etlMetrics, metricsRead, toPrint, reqs>>

\* lines 17-27
CheckDataFile ==
    /\ mode = "cli" /\ pc = "check"
    /\ IF CheckTarget(fileExists) = "not_found"
       THEN /\ out' = out \o NotFoundLines
            /\ exited' = TRUE
            /\ exitCode' = MainExitCode("Ok")
            /\ pc' = "done"
       ELSE /\ pc' = CheckTarget(fileExists)
            /\ UNCHANGED <<out, exited, exitCode>>
    /\ UNCHANGED <<last, mode, fileExists, errout, started, running, ret, state,
                   etlMetrics, metricsRead, toPrint, reqs>>

\* lines 29-34: one call of the method chain
CallStage(s) ==
    /\ mode = "cli" /\ pc = s /\ running = "none" /\ last = "none"
    /\ started' = Append(started, s)
    /\ running' = s
    /\ UNCHANGED <<mode, fileExists, pc, out, errout, exited, exitCode, ret, last,
                   state, etlMetrics, metricsRead, toPrint, reqs>>

\* PolarsETL stage body: succeeds or fails, the elapsed time is recorded in
\* both cases.
StageReturns(s, r) ==
    /\ mode = "cli" /\ running = s
    /\ running' = "none"
    /\ ret' = [ret EXCEPT ![s] = r]
    /\ last' = r
    /\ state' = IF r = "Ok" THEN StateAfter(s) ELSE "Failed"
    /\ etlMetrics' = etlMetrics \cup {TimeKey(s)} \cup (IF r = "Ok" THEN CountKeys(s) ELSE {})
    /\ UNCHANGED <<mode, fileExists, pc, out, errout, exited, exitCode, started,
                   metricsRead, toPrint, reqs>>

\* lines 29-36, 70: `?` after the first four calls, `match` on the fifth
Propagate(s) ==
    /\ mode = "cli" /\ pc = s /\ running = "none" /\ last # "none"
    /\ pc' = AfterStage(s, last)
    /\ last' = "none"
    /\ UNCHANGED <<mode, fileExists, out, errout, exited, exitCode, started,
                   running, ret, state, etlMetrics, metricsRead, toPrint, reqs>>

\* lines 36-47
OkArm ==
    /\ mode = "cli" /\ pc = "ok_arm"
    /\ out' = out \o CompleteLines
    /\ metricsRead' = TRUE
    /\ toPrint' = etlMetrics
    /\ pc' = "metrics_loop"
    /\ UNCHANGED <<last, mode, fileExists, errout, exited, exitCode, started, running,
                   ret, state, etlMetrics, reqs>>

\* lines 48-66: one iteration over the HashMap (iteration order is arbitrary)
PrintMetric(k) ==
    /\ mode = "cli" /\ pc = "metrics_loop" /\ k \in toPrint
    /\ toPrint' = toPrint \ {k}
    /\ out' = IF ContainsTime(k) THEN Append(out, MetricLine(k)) ELSE out
    /\ UNCHANGED <<last, mode, fileExists, pc, errout, exited, exitCode, started,
                   running, ret, state, etlMetrics, metricsRead, reqs>>

\* line 68
EndSummary ==
    /\ mode = "cli" /\ pc = "metrics_loop" /\ toPrint = {}
    /\ out' = Append(out, Line("sep"))
    /\ pc' = "return_ok"
    /\ UNCHANGED <<last, mode, fileExists, errout, exited, exitCode, started, running,
                   ret, state, etlMetrics, metricsRead, toPrint, reqs>>

\* lines 70-72
ErrArm ==
    /\ mode = "cli" /\ pc = "err_arm"
    /\ out' = out \o ErrorLines
    /\ pc' = "return_ok"
    /\ UNCHANGED <<last, mode, fileExists, errout, exited, exitCode, started, running,
                   ret, state, etlMetrics, metricsRead, toPrint, reqs>>

\* line 75
ReturnOk ==
    /\ mode = "cli" /\ pc = "return_ok"
    /\ exited' = TRUE
    /\ exitCode' = MainExitCode("Ok")
    /\ pc' = "done"
    /\ UNCHANGED <<last, mode, fileExists, out, errout, started, running, ret, state,
                   etlMetrics, metricsRead, toPrint, reqs>>

\* lines 30-33: `?` returns the Err from main; the runtime reports it
ReturnErr ==
    /\ mode = "cli" /\ pc = "return_err"
    /\ errout' = errout \o RuntimeErrorLines
    /\ exited' = TRUE
    /\ exitCode' = MainExitCode("Err")
    /\ pc' = "done"
    /\ UNCHANGED <<last, mode, fileExists, out, started, running, ret, state,
                   etlMetrics, metricsRead, toPrint, reqs>>

CliNext ==
    \/ PrintBanner
    \/ CheckDataFile
    \/ \E s \in Stages : CallStage(s)
    \/ \E s \in Stages, r \in {"Ok", "Err"} : StageReturns(s, r)
    \/ \E s \in Stages : Propagate(s)
    \/ OkArm
    \/ \E k \in etlMetrics : PrintMetric(k)
    \/ EndSummary
    \/ ErrArm
    \/ ReturnOk
    \/ ReturnErr

----------------------------------------------------------------------------
(* Web API handlers                                                        *)

Paths == {"/", "/health", "/benchmark", "/info"}

\* A query string: sample_size absent, or present with a raw text (a
\* sequence of characters).
NoQuery == [present |-> FALSE, raw |-> <<>>]

RawQuery(chars) == [present |-> TRUE, raw |-> chars]

\* 2^64, one above usize::MAX on a 64-bit target
TwoPow64Chars == <<"1","8","4","4","6","7","4","4","0","7","3","7","0","9","5","5","1","6","1","6">>

Queries ==
    { NoQuery,
      RawQuery(<<"1","0","0","0">>),
      RawQuery(<<"+","0","5">>),
      RawQuery(<<"-","1">>),
      RawQuery(<<"a","b","c">>),
      RawQuery(<<>>),
      RawQuery(TwoPow64Chars) }

DigitChars == {"0","1","2","3","4","5","6","7","8","9"}

DigitVal(c) ==
    CASE c = "0" -> 0 [] c = "1" -> 1 [] c = "2" -> 2 [] c = "3" -> 3 [] c = "4" -> 4
      [] c = "5" -> 5 [] c = "6" -> 6 [] c = "7" -> 7 [] c = "8" -> 8 [] c = "9" -> 9

UsizeMaxDigits == <<1,8,4,4,6,7,4,4,0,7,3,7,0,9,5,5,1,6,1,5>>

RECURSIVE StripZeros(_)
StripZeros(d) == IF Len(d) > 1 /\ d[1] = 0 THEN StripZeros(Tail(d)) ELSE d

RECURSIVE LexLeq(_, _)
LexLeq(a, b) ==
    IF a = <<>> THEN TRUE
    ELSE IF a[1] < b[1] THEN TRUE
    ELSE IF a[1] > b[1] THEN FALSE
    ELSE LexLeq(Tail(a), Tail(b))

FitsUsize(d) == Len(d) < Len(UsizeMaxDigits) \/ (Len(d) = Len(UsizeMaxDigits) /\ LexLeq(d, UsizeMaxDigits))

None == [some |-> FALSE, digits |-> <<>>]

Some(d) == [some |-> TRUE, digits |-> d]

\* Query<BenchmarkQuery>: sample_size is Option<usize> with serde(default).
\* Absent gives None; a present value is parsed as usize (an optional "+",
\* then one or more decimal digits, at most usize::MAX); anything else makes
\* the extractor reject the request. A value is kept as its decimal digits.
ParseSampleSize(q) ==
    IF ~q.present THEN [ok |-> TRUE, value |-> None]
    ELSE LET body == IF Len(q.raw) > 1 /\ q.raw[1] = "+" THEN Tail(q.raw) ELSE q.raw
             good == /\ Len(body) > 0
                     /\ \A i \in 1..Len(body) : body[i] \in DigitChars
             digits == StripZeros([i \in 1..Len(body) |-> DigitVal(body[i])])
         IN IF good /\ FitsUsize(digits)
            THEN [ok |-> TRUE, value |-> Some(digits)]
            ELSE [ok |-> FALSE, value |-> None]

EmptyMap == [k \in {} |-> 0]

\* HashMap::insert
Insert(m, k, v) == [x \in (DOMAIN m) \cup {k} |-> IF x = k THEN v ELSE m[x]]

DatasetRows == 12748986

\* Mutant: rows_processed follows the requested sample size.
MetricsInsertsSampled(sample) ==
    << <<"load_time", 12>>, <<"clean_time", 8>>, <<"aggregate_time", 4>>,
       <<"sort_filter_time", 3>>, <<"save_time", 1>>, <<"total_time", 28>>,
       <<"rows_processed", IF sample.some THEN 10 * Len(sample.digits) ELSE 10 * DatasetRows>>,
       <<"long_trips_count", 456320>>, <<"expensive_trips_count", 1234560>> >>

\* Mutant: a stage time is mistyped.
MetricsInsertsMistyped(sample) ==
    << <<"load_time", 12>>, <<"clean_time", 8>>, <<"aggregate_time", 4>>,
       <<"sort_filter_time", 3>>, <<"save_time", 10>>, <<"total_time", 28>>,
       <<"rows_processed", 10 * DatasetRows>>,
       <<"long_trips_count", 456320>>, <<"expensive_trips_count", 1234560>> >>

\* The nine metrics.insert calls of run_benchmark, in tenths; the extracted
\* query is not looked at.
MetricsInserts(sample) ==
    << <<"load_time", 12>>, <<"clean_time", 8>>, <<"aggregate_time", 4>>,
       <<"sort_filter_time", 3>>, <<"save_time", 1>>, <<"total_time", 28>>,
       <<"rows_processed", 10 * DatasetRows>>,
       <<"long_trips_count", 456320>>, <<"expensive_trips_count", 1234560>> >>

DatasetInfo == [name |-> "NYC Yellow Taxi Data (January 2015)", rows |-> DatasetRows, size_mb |-> "~2.1 GB", columns |-> 19]

\* 12_748_986.0 / 2.8, printed with {:.0}
RowsPerSecond == (10 * DatasetRows + 14) \div 28

BenchmarkResult(m) ==
    [kind |-> "BenchmarkResult", metrics |-> m,
     message |-> "Polars ETL benchmark completed successfully with blazing speed!",
     rows_per_second |-> RowsPerSecond, dataset_info |-> DatasetInfo]

HealthResponse ==
    [kind |-> "HealthResponse", status |-> "healthy", service |-> "Polars ETL Benchmark API",
     version |-> "1.0.0",
     endpoints |-> <<"GET /", "GET /health", "GET /benchmark", "GET /benchmark?sample_size=1000">>]

ComparisonInfo ==
    [kind |-> "ComparisonInfo", dataset |-> "NYC Yellow Taxi Data (January 2015)",
     total_records |-> "12.7M+", file_size |-> "~2.1 GB", platform |-> "Shuttle.rs"]

Rejection == [kind |-> "QueryRejection"]

NoBody == [kind |-> "none"]

Response(code, b) == [status |-> code, body |-> b]

\* Mutant: /info is wired to the benchmark handler.
RouteMiswired(path) ==
    CASE path = "/" -> "health_check"
      [] path = "/health" -> "health_check"
      [] path = "/benchmark" -> "run_benchmark"
      [] path = "/info" -> "run_benchmark"

\* Router::new().route(...)
Route(path) ==
    CASE path = "/" -> "health_check"
      [] path = "/health" -> "health_check"
      [] path = "/benchmark" -> "run_benchmark"
      [] path = "/info" -> "get_comparison_info"

IdleReq == [st |-> "idle", path |-> "", query |-> NoQuery, sample |-> None,
            step |-> 0, metrics |-> EmptyMap, resp |-> Response(0, NoBody)]

\* Mutant: the metrics map is one static shared by all calls of the handler.
HandlerMetricsShared(i) == reqs[1].metrics

\* `let mut metrics = HashMap::new();` is a local of each call.
HandlerMetrics(i) == reqs[i].metrics

\* A GET request arrives on a free connection slot.
Receive(i, path, q) ==
    /\ mode = "service" /\ reqs[i].st = "idle"
    /\ reqs' = [reqs EXCEPT ![i] = [IdleReq EXCEPT !.st = "routed", !.path = path, !.query = q]]
    /\ UNCHANGED <<mode, fileExists>> /\ UNCHANGED cliVars

\* health_check, for / and /health
HealthCheck(i) ==
    /\ mode = "service" /\ reqs[i].st = "routed" /\ Route(reqs[i].path) = "health_check"
    /\ reqs' = [reqs EXCEPT ![i].st = "done", ![i].resp = Response(200, HealthResponse)]
    /\ UNCHANGED <<mode, fileExists>> /\ UNCHANGED cliVars

\* get_comparison_info, for /info
GetComparisonInfo(i) ==
    /\ mode = "service" /\ reqs[i].st = "routed" /\ Route(reqs[i].path) = "get_comparison_info"
    /\ reqs' = [reqs EXCEPT ![i].st = "done", ![i].resp = Response(200, ComparisonInfo)]
    /\ UNCHANGED <<mode, fileExists>> /\ UNCHANGED cliVars

\* run_benchmark: the Query extractor runs before the handler body
ExtractQuery(i) ==
    /\ mode = "service" /\ reqs[i].st = "routed" /\ Route(reqs[i].path) = "run_benchmark"
    /\ LET p == ParseSampleSize(reqs[i].query)
       IN reqs' = IF p.ok
                  THEN [reqs EXCEPT ![i].st = "handler", ![i].sample = p.value]
                  ELSE [reqs EXCEPT ![i].st = "done", ![i].resp = Response(400, Rejection)]
    /\ UNCHANGED <<mode, fileExists>> /\ UNCHANGED cliVars

\* run_benchmark: one metrics.insert
InsertMetric(i) ==
    /\ mode = "service" /\ reqs[i].st = "handler"
    /\ reqs[i].step < Len(MetricsInserts(reqs[i].sample))
    /\ LET kv == MetricsInserts(reqs[i].sample)[reqs[i].step + 1]
       IN reqs' = [reqs EXCEPT ![i].metrics = Insert(HandlerMetrics(i), kv[1], kv[2]),
                               ![i].step = @ + 1]
    /\ UNCHANGED <<mode, fileExists>> /\ UNCHANGED cliVars

\* run_benchmark: dataset_info, performance_summary and the Ok(Json(..))
RespondBenchmark(i) ==
    /\ mode = "service" /\ reqs[i].st = "handler"
    /\ reqs[i].step = Len(MetricsInserts(reqs[i].sample))
    /\ reqs' = [reqs EXCEPT ![i].st = "done",
                            ![i].resp = Response(200, BenchmarkResult(HandlerMetrics(i)))]
    /\ UNCHANGED <<mode, fileExists>> /\ UNCHANGED cliVars

\* The response has been written; the slot is free again.
Complete(i) ==
    /\ mode = "service" /\ reqs[i].st = "done"
    /\ reqs' = [reqs EXCEPT ![i] = IdleReq]
    /\ UNCHANGED <<mode, fileExists>> /\ UNCHANGED cliVars

ServiceNext ==
    \/ \E i \in Slots, path \in Paths, q \in Queries : Receive(i, path, q)
    \/ \E i \in Slots : HealthCheck(i)
    \/ \E i \in Slots : GetComparisonInfo(i)
    \/ \E i \in Slots : ExtractQuery(i)
    \/ \E i \in Slots : InsertMetric(i)
    \/ \E i \in Slots : RespondBenchmark(i)
    \/ \E i \in Slots : Complete(i)

----------------------------------------------------------------------------
Init ==
    /\ mode \in {"cli", "service"}
    /\ fileExists \in BOOLEAN
    /\ pc = "banner"
    /\ out = <<>>
    /\ errout = <<>>
    /\ exited = FALSE
    /\ exitCode = 0
    /\ started = <<>>
    /\ running = "none"
    /\ ret = [s \in Stages |-> "none"]
    /\ last = "none"
    /\ state = "Uninitialized"
    /\ etlMetrics = {}
    /\ metricsRead = FALSE
    /\ toPrint = {}
    /\ reqs = [i \in Slots |-> IdleReq]

Next == CliNext \/ ServiceNext

Spec == Init /\ [][Next]_vars

----------------------------------------------------------------------------
(* Properties                                                              *)

Failed(s) == ret[s] = "Err"

AnyFailed == \E s \in Stages : Failed(s)

AllSucceeded == \A s \in Stages : ret[s] = "Ok"

Printed(kind) == \E k \in 1..Len(out) : out[k].line = kind

\* The lines that report a problem (printed with the cross mark).
IsDiagnostic(l) == l.line \in {"not_found", "error_during_benchmark"}

Diagnostics == SelectSeq(out, IsDiagnostic)

\* C1: in a console run the stages are started in the order load, clean,
\* aggregate, sort_and_filter, save, each at most once, each only after its
\* predecessor has returned Ok, and none after a stage has failed.
C1_StagesInOrder ==
    mode = "cli" =>
        /\ Len(started) <= Len(StageOrder)
        /\ \A k \in 1..Len(started) : started[k] = StageOrder[k]
        /\ \A k \in 2..Len(started) :
              /\ ret[started[k-1]] = "Ok"
              /\ running # started[k-1]
        /\ \A s \in Stages : Failed(s) => (started # <<>> /\ started[Len(started)] = s)

C1_Witness ==
    /\ mode = "cli" /\ exited
    /\ started = <<"load_data", "clean_data", "aggregate_data">>
    /\ Failed("aggregate_data")

\* C2: when the input file does not exist the console run starts no stage
\* and ends having printed, after the banner, exactly one diagnostic (the
\* "Data file not found" line, followed by its hint line) and nothing on
\* standard error.
C2_MissingFileNoStage ==
    (mode = "cli" /\ ~fileExists) =>
        /\ started = <<>> /\ running = "none"
        /\ \A s \in Stages : ret[s] = "none"
        /\ exited =>
              /\ Len(Diagnostics) = 1
              /\ Diagnostics[1].line = "not_found"
              /\ out = <<Line("sep"), Line("starting"), Line("sep"), Line("not_found"), Line("hint")>>
              /\ errout = <<>>

C2_Witness == mode = "cli" /\ ~fileExists /\ exited /\ Printed("not_found")

\* C3: a console run in which some stage failed ends with a non-zero exit
\* code.
C3_FailureExitsNonZero == (mode = "cli" /\ exited /\ AnyFailed) => exitCode # 0

\* C4: a console run in which some stage failed has printed the "Error
\* during Polars benchmark" line by the time it ends.
C4_FailurePrintsSummary == (mode = "cli" /\ exited /\ AnyFailed) => Printed("error_during_benchmark")

IsBenchmarkDone(i) == reqs[i].st = "done" /\ reqs[i].path = "/benchmark"

RowsProcessedTenths == 127489860

\* C6 (as stated): whatever sample_size is, absent or any value, a request
\* to /benchmark is answered 200 with rows_processed 12748986, and two such
\* requests get the same response.
C6_AnySampleSizeIgnored ==
    /\ \A i \in Slots : IsBenchmarkDone(i) =>
          /\ reqs[i].resp.status = 200
          /\ reqs[i].resp.body.metrics["rows_processed"] = RowsProcessedTenths
    /\ \A i, j \in Slots : (IsBenchmarkDone(i) /\ IsBenchmarkDone(j)) => reqs[i].resp = reqs[j].resp

\* The sample_size values that are absent or a valid unsigned integer.
ValidSampleSizes == { NoQuery, RawQuery(<<"1","0","0","0">>), RawQuery(<<"+","0","5">>) }

\* C6 (amended): when sample_size is absent or a valid unsigned integer, a
\* request to /benchmark is answered 200 with rows_processed 12748986 and
\* two such requests get the same response; when sample_size is present but
\* not a valid unsigned integer the request is answered 400 and the handler
\* body has not run.
C6_ValidSampleSizeIgnored ==
    /\ \A i \in Slots : IsBenchmarkDone(i) =>
          IF reqs[i].query \in ValidSampleSizes
          THEN /\ reqs[i].resp.status = 200
               /\ reqs[i].resp.body.metrics["rows_processed"] = RowsProcessedTenths
          ELSE /\ reqs[i].resp.status = 400
               /\ reqs[i].step = 0 /\ reqs[i].metrics = EmptyMap
    /\ \A i, j \in Slots :
          (/\ IsBenchmarkDone(i) /\ IsBenchmarkDone(j)
           /\ reqs[i].query \in ValidSampleSizes /\ reqs[j].query \in ValidSampleSizes)
          => reqs[i].resp = reqs[j].resp

C6_Witness ==
    \E i, j \in Slots :
        /\ IsBenchmarkDone(i) /\ IsBenchmarkDone(j)
        /\ reqs[i].query = NoQuery
        /\ reqs[j].query = RawQuery(<<"1","0","0","0">>)

ExpectedMetrics ==
    [k \in {"load_time", "clean_time", "aggregate_time", "sort_filter_time", "save_time",
            "total_time", "rows_processed", "long_trips_count", "expensive_trips_count"} |->
        CASE k = "load_time" -> 12
          [] k = "clean_time" -> 8
          [] k = "aggregate_time" -> 4
          [] k = "sort_filter_time" -> 3
          [] k = "save_time" -> 1
          [] k = "total_time" -> 28
          [] k = "rows_processed" -> 127489860
          [] k = "long_trips_count" -> 456320
          [] k = "expensive_trips_count" -> 1234560]

\* The response a request gets when it is the only one being served.
ServedAlone(path, q) ==
    CASE path \in {"/", "/health"} -> Response(200, HealthResponse)
      [] path = "/info" -> Response(200, ComparisonInfo)
      [] path = "/benchmark" /\ q \in ValidSampleSizes -> Response(200, BenchmarkResult(ExpectedMetrics))
      [] path = "/benchmark" /\ q \notin ValidSampleSizes -> Response(400, Rejection)

\* C7: in service mode no pipeline stage is ever started and no pipeline
\* error arises, and under any interleaving every answered request has
\* exactly the response it gets when served alone, the metrics map a
\* handler is filling holding only that handler's own inserts.
C7_RequestsIndependent ==
    mode = "service" =>
        /\ started = <<>> /\ running = "none" /\ state = "Uninitialized"
        /\ \A s \in Stages : ret[s] = "none"
        /\ out = <<>> /\ errout = <<>> /\ ~exited
        /\ \A i \in Slots :
              /\ reqs[i].st = "done" => reqs[i].resp = ServedAlone(reqs[i].path, reqs[i].query)
              /\ reqs[i].st = "handler" => Cardinality(DOMAIN reqs[i].metrics) = reqs[i].step

C7_Witness ==
    \E i, j \in Slots :
        /\ i # j
        /\ IsBenchmarkDone(i) /\ reqs[i].resp.status = 200
        /\ reqs[j].st = "handler" /\ reqs[j].step = 4

\* C8: main reads the metrics mapping only once the pipeline is in a
\* terminal state (Saved or Failed), with no stage running or still to be
\* called.
C8_MetricsReadAfterTerminal ==
    metricsRead =>
        /\ state \in {"Saved", "Failed"}
        /\ running = "none"
        /\ started = StageOrder
        /\ \A s \in Stages : ret[s] # "none"

C8_Witness == metricsRead /\ pc = "metrics_loop" /\ state = "Saved"

\* C9: in the /benchmark payload total_time is the sum of the five stage
\* times (12 + 8 + 4 + 3 + 1 = 28 tenths of a second) and rows_processed
\* equals dataset_info.rows (12748986).
C9_PayloadConsistent ==
    \A i \in Slots : (IsBenchmarkDone(i) /\ reqs[i].resp.status = 200) =>
        LET m == reqs[i].resp.body.metrics
        IN /\ m["total_time"] = m["load_time"] + m["clean_time"] + m["aggregate_time"]
                                 + m["sort_filter_time"] + m["save_time"]
           /\ m["total_time"] = 28
           /\ m["rows_processed"] = 10 * reqs[i].resp.body.dataset_info.rows
           /\ reqs[i].resp.body.dataset_info.rows = 12748986

C9_Witness == \E i \in Slots : IsBenchmarkDone(i) /\ reqs[i].resp.status = 200 /\ reqs[i].step = 9

SummaryKinds == {"blank_sep", "complete", "total_time", "metrics_header", "metric"}

\* C10: the completion banner, the total time and the per-stage metrics
\* lines are printed only when the input file existed and all five stages
\* returned Ok.
C10_SummaryOnlyOnSuccess ==
    (\E k \in 1..Len(out) : out[k].line \in SummaryKinds) => (fileExists /\ AllSucceeded)

C10_Witness == exited /\ Printed("complete") /\ Printed("metric") /\ exitCode = 0

====
